---- MODULE Spec2Model ----
(***************************************************************************)
(* A model of the MagicHome client library (src/src/magichome.py):         *)
(*   - MagicHomeController: one TCP connection per command (_send), the    *)
(*     power / colour commands, the state getter and setter;               *)
(*   - MagicHome: the UDP discovery handshake (discover, connect).         *)
(* Byte strings are sequences of integers 0..255 (ASCII codes for text).   *)
(* Python's None is NoneBytes for an optional byte string and the string   *)
(* "None" for an optional bool.                                            *)
(***************************************************************************)
EXTENDS Integers, Sequences, FiniteSets, TLC

VARIABLES
    op,            \* the library call in progress, "idle" between calls
    pc,            \* position inside the call
    args,          \* the integer channel arguments (r, g, b, w) of the call
    target,        \* the is_on flag of the state handed to the state setter
    data,          \* _send: the payload parameter
    get_response,  \* _send: the get_response parameter
    sock,          \* _send: the socket s of the latest _send call
    tcpOpen,       \* TCP sockets created and not closed
    wire,          \* payloads written to the device during this call
    readEnd,       \* _send: how s.recv ended: "none", "data", "timeout", "error"
    response,      \* _send: what the latest _send call returned
    queried,       \* power_toggle: the local is_on
    outcome,       \* how the call ended: "none", "return" or the exception raised
    retState,      \* the MagicHomeControllerState returned by the state getter
    addr,          \* connect: the addr argument
    udpOpen,       \* UDP sockets created and not closed
    tried,         \* discover/connect: the socket calls of the setup and their results
    probes,        \* discover/connect: probe messages sent by this call
    rcvd,          \* discover/connect: the datagrams recvfrom returned, in order
    found,         \* discover: the local set found
    yielded,       \* discover: the controllers yielded so far
    retCtl,        \* connect: the controller returned
    peer,          \* connect: the host the received datagram came from
    delta,         \* change_brightness: the delta and percentage arguments
    retColor,      \* change_brightness: the (r, g, b, w) of the colour afterwards
    devOn,         \* the device: its power state
    devInit,       \* the device: its power state at the start
    toggles        \* power_toggle calls that have returned

\* The variables of a controller session and those of the discovery.
svars == << args, target, data, get_response, sock, wire, readEnd, response,
            queried, retState >>
dvars == << addr, tried, probes, rcvd, found, yielded, retCtl, peer >>
\* The variables of a brightness change and those of the device.
bvars == << delta, retColor >>
devvars == << devOn, devInit, toggles >>

vars == << op, pc, outcome, tcpOpen, udpOpen, svars, dvars, bvars, devvars >>

(***************************************************************************)
(* Bounds of the model.                                                    *)
(***************************************************************************)
MaxOpen == 2         \* a call starts only while fewer sockets than this are open
Over == 1            \* how far outside 0..255 a channel argument may lie
MaxRespLen == 11     \* longest query response received
MaxRecv == 2         \* datagrams received by one discover call
MaxCommas == 3       \* most separators in a received datagram
MaxToggles == 2      \* power_toggle calls followed against one device

(***************************************************************************)
(* Values.                                                                 *)
(***************************************************************************)
NoneBytes == [some |-> FALSE, bytes |-> << >>]
SomeBytes(b) == [some |-> TRUE, bytes |-> b]

\* Channel arguments: in range, on both edges, and outside on both sides.
Channels == { -Over, 0, 128, 255, 255 + Over }

NoArgs == << 0, 0, 0, 0 >>
NoDelta == [delta |-> << 0, 1 >>, percentage |-> FALSE]
NoState == [is_on |-> "None", color |-> NoArgs]

\* The fixed command payloads.
TURN_ON == << 113, 35, 148 >>            \* b'\x71\x23\x94'
TURN_OFF == << 113, 36, 149 >>           \* b'\x71\x24\x95'
QUERY == << 129, 138, 139, 150 >>        \* b'\x81\x8a\x8b\x96'

RECURSIVE SumSeq(_)
SumSeq(s) == IF s = << >> THEN 0 ELSE Head(s) + SumSeq(Tail(s))

\* A checksum that is not cut to its low 8 bits.
stream_checksum_unmasked(stream) == << SumSeq(stream) >>

\* __stream_checksum: sum(stream) & 0xff, as a one-byte string.
stream_checksum(stream) == << SumSeq(stream) % 256 >>

\* A conversion that wraps modulo 256 instead of clamping.
int2byte_wrapping(i) == << i % 256 >>

\* __int2byte
int2byte(i) == IF i < 0 THEN << 0 >> ELSE IF i > 255 THEN << 255 >> ELSE << i >>

\* color(): the command handed to _send.
ColorCommand(r, g, b, w) ==
    LET command == << 49 >> \o int2byte(r) \o int2byte(g) \o int2byte(b)
                        \o int2byte(w) \o << 15 >>
    IN  command \o stream_checksum(command)

(***************************************************************************)
(* Query responses: any prefix (possibly empty, possibly longer than 10)   *)
(* of a frame whose status byte and colour bytes vary.                     *)
(***************************************************************************)
StatusBytes == { 35, 36, 0 }
ColorBytes == { 10, 200 }

Frame(st, r, g, b, w) ==
    << 129, 68, st, 97, 1, 31, r, g, b, w >> \o [i \in 1..(MaxRespLen - 10) |-> 3]

Responses ==
    { SubSeq(Frame(st, r, g, b, w), 1, n) :
        st \in StatusBytes, r \in ColorBytes, g \in ColorBytes,
        b \in ColorBytes, w \in ColorBytes, n \in 0..MaxRespLen }

\* Python indexing response[i] (0-based); "IndexError" past the end.
InRange(resp, i) == i + 1 <= Len(resp)

\* A status check whose second branch recognizes 0x24 as off.
IsOn_off24(status) ==
    IF status = 35 THEN "True"
    ELSE IF status = 36 THEN "False"
    ELSE "None"

\* State getter, lines 237-242: the on/off flag from the status byte.
IsOn(status) ==
    IF status = 35 THEN "True"
    ELSE IF status = 35 THEN "False"
    ELSE "None"

\* A state getter for which a timed-out read is an empty response.
StateGetter_noneAsEmpty(resp, debug) ==
    IF ~resp.some \/ Len(resp.bytes) < 10
    THEN [exc |-> "IndexError", state |-> NoState]
    ELSE [exc |-> "return",
          state |-> [is_on |-> IsOn(resp.bytes[3]),
                     color |-> << resp.bytes[7], resp.bytes[8],
                                  resp.bytes[9], resp.bytes[10] >>]]

\* The state getter after _send returned resp (None or bytes), with the
\* logger's DEBUG level enabled or not: the exception it raises, or "return"
\* and the state it builds.
StateGetter(resp, debug) ==
    IF ~resp.some
    THEN \* __str2hex(None) iterates None; response[2] subscripts None
         [exc |-> "TypeError", state |-> NoState]
    ELSE IF ~InRange(resp.bytes, 2)
    THEN [exc |-> "IndexError", state |-> NoState]
    ELSE LET is_on == IsOn(resp.bytes[3])
         IN  IF ~InRange(resp.bytes, 9)
             THEN [exc |-> "IndexError", state |-> NoState]
             ELSE [exc |-> "return",
                   state |-> [is_on |-> is_on,
                              color |-> << resp.bytes[7], resp.bytes[8],
                                           resp.bytes[9], resp.bytes[10] >>]]

\* A toggle that takes an undetermined state for on.
ToggleCommand_noneAsOn(is_on) == IF is_on # "False" THEN TURN_OFF ELSE TURN_ON

\* A toggle that turns on what is on and off what is not.
ToggleCommand_swapped(is_on) == IF is_on = "True" THEN TURN_ON ELSE TURN_OFF

\* power_toggle: the command chosen from the local is_on.
ToggleCommand(is_on) == IF is_on = "True" THEN TURN_OFF ELSE TURN_ON

\* A test that is true of False alone ("if s.is_on is False").
Falsy_falseOnly(is_on) == is_on = "False"

\* state setter: "if not s.is_on" -- None is falsy.
Falsy(is_on) == is_on \in { "False", "None" }
SetterCommand(is_on, color) ==
    IF Falsy(is_on) THEN TURN_OFF
    ELSE ColorCommand(color[1], color[2], color[3], color[4])

(***************************************************************************)
(* MagicHome: discovery datagrams and controller identities.               *)
(***************************************************************************)
Comma == 44          \* b','

\* b"HF-A11ASSISTHREAD"
broadcast_message ==
    << 72, 70, 45, 65, 49, 49, 65, 83, 83, 73, 83, 84, 72, 82, 69, 65, 68 >>

\* The addresses of the devices, b'a' and b'b'.
Addrs == { << 97 >>, << 98 >> }

\* sep.join(fields)
RECURSIVE join(_, _)
join(fields, sep) ==
    IF Len(fields) = 0 THEN << >>
    ELSE IF Len(fields) = 1 THEN fields[1]
    ELSE fields[1] \o << sep >> \o join(Tail(fields), sep)

\* A reply line with k separators: the address, then b'1', b'2', ...
Reply(a, k) == join(<< a >> \o [i \in 1..k |-> << 48 + i >>], Comma)

\* What recvfrom may return: reply lines of 1, 2, 3, 4, ... fields from each
\* address, the empty datagram, and the probe message echoed back.
Datagrams ==
    { Reply(a, k) : a \in Addrs, k \in 0..MaxCommas }
        \cup { << >>, broadcast_message }

\* bytes.split(sep): the fields between the separators, empty ones kept;
\* a text with n separators has n + 1 fields.
RECURSIVE SplitFrom(_, _, _)
SplitFrom(text, sep, field) ==
    IF text = << >> THEN << field >>
    ELSE IF Head(text) = sep
         THEN << field >> \o SplitFrom(Tail(text), sep, << >>)
         ELSE SplitFrom(Tail(text), sep, Append(field, Head(text)))
split(text, sep) == SplitFrom(text, sep, << >>)

NoCtl == [oid |-> 0, addr |-> << >>, id |-> NoneBytes, model |-> NoneBytes]

\* MagicHomeController(*fields): __init__(self, addr, id=None, model=None).
\* One to three positional arguments are accepted, more raise TypeError.
\* oid is the identity of the new object.
MagicHomeController(fields, oid) ==
    IF Len(fields) > 3 \/ Len(fields) < 1
    THEN [exc |-> "TypeError", ctl |-> NoCtl]
    ELSE [exc |-> "none",
          ctl |-> [oid |-> oid,
                   addr |-> fields[1],
                   id |-> IF Len(fields) >= 2 THEN SomeBytes(fields[2]) ELSE NoneBytes,
                   model |-> IF Len(fields) >= 3 THEN SomeBytes(fields[3]) ELSE NoneBytes]]

\* __hash__: hash(self._addr).
Hash(c) == c.addr

\* The class defines no __eq__: object.__eq__ compares identities.
Eq(c, d) == c.oid = d.oid

\* set.add: x is left out when the set holds an element with the same hash
\* that is equal to it.
SetAdd(S, x) ==
    IF \E y \in S : Hash(y) = Hash(x) /\ Eq(y, x) THEN S ELSE S \cup { x }

\* A test that takes no datagram for the echo of the probe.
IsEcho_never(d) == FALSE

\* discover, line 304: data == cls.__broadcast_message.
IsEcho(d) == d = broadcast_message

(***************************************************************************)
(* Initial state.                                                          *)
(***************************************************************************)
InitCalls ==
    /\ op = "idle"
    /\ pc = "idle"
    /\ args = NoArgs
    /\ target = "None"
    /\ data = << >>
    /\ get_response = FALSE
    /\ sock = "none"
    /\ tcpOpen = 0
    /\ wire = << >>
    /\ readEnd = "none"
    /\ response = NoneBytes
    /\ queried = "None"
    /\ outcome = "none"
    /\ retState = NoState
    /\ addr = << >>
    /\ udpOpen = 0
    /\ tried = << >>
    /\ probes = 0
    /\ rcvd = << >>
    /\ found = {}
    /\ yielded = {}
    /\ retCtl = NoCtl
    /\ peer = << >>
    /\ delta = NoDelta
    /\ retColor = NoArgs

\* No device is followed: its variables stay as they are.
Init ==
    /\ InitCalls
    /\ devOn = FALSE
    /\ devInit = FALSE
    /\ toggles = 0

\* A library call starts: the per-call bookkeeping is fresh and _send is
\* entered with the given payload.
Begin(name, a, t, payload, wantResponse) ==
    /\ pc = "idle"
    /\ tcpOpen + udpOpen < MaxOpen
    /\ op' = name
    /\ args' = a
    /\ target' = t
    /\ data' = payload
    /\ get_response' = wantResponse
    /\ pc' = "connect"
    /\ sock' = "none"
    /\ wire' = << >>
    /\ readEnd' = "none"
    /\ response' = NoneBytes
    /\ queried' = "None"
    /\ outcome' = "none"
    /\ retState' = NoState
    /\ UNCHANGED << tcpOpen, udpOpen, dvars, bvars, devvars >>

turn_on == Begin("turn_on", NoArgs, "None", TURN_ON, FALSE)

turn_off == Begin("turn_off", NoArgs, "None", TURN_OFF, FALSE)

color ==
    \E r \in Channels, g \in Channels, b \in Channels, w \in Channels :
        Begin("color", << r, g, b, w >>, "None", ColorCommand(r, g, b, w), FALSE)

state_get == Begin("state_get", NoArgs, "None", QUERY, TRUE)

state_set ==
    \E t \in { "True", "False", "None" } :
    \E r \in Channels, g \in Channels, b \in Channels, w \in Channels :
        Begin("state_set", << r, g, b, w >>, t,
              SetterCommand(t, << r, g, b, w >>), FALSE)

power_toggle == Begin("power_toggle", NoArgs, "None", QUERY, TRUE)

(***************************************************************************)
(* _send, one action per blocking socket call.                             *)
(***************************************************************************)
\* An exception leaves _send and every caller: nothing on the way catches it.
Raise(exc) ==
    /\ pc' = "done"
    /\ outcome' = exc

\* socket.socket(...) and s.connect(...), lines 149-151.
SendConnect ==
    /\ pc = "connect"
    /\ sock' = "open"
    /\ tcpOpen' = tcpOpen + 1
    /\ \E ok \in BOOLEAN :
          IF ok THEN pc' = "send" /\ UNCHANGED outcome
          ELSE Raise("OSError")
    /\ UNCHANGED << op, args, target, data, get_response, wire, readEnd,
                    response, queried, retState, udpOpen, dvars, bvars, devvars >>

\* s.send(data) and, when no response is wanted, s.close() and return
\* None, lines 152-155.  No caller does anything after a _send without
\* response.  What the device makes of the payload is left to the caller.
SendWriteStep ==
    /\ pc = "send"
    /\ \E ok \in BOOLEAN :
          IF ~ok
          THEN /\ Raise("OSError")
               /\ UNCHANGED << wire, sock, tcpOpen, response >>
          ELSE /\ wire' = Append(wire, data)
               /\ IF get_response
                  THEN /\ pc' = "recv"
                       /\ UNCHANGED << outcome, sock, tcpOpen, response >>
                  ELSE /\ sock' = "closed"
                       /\ tcpOpen' = tcpOpen - 1
                       /\ response' = NoneBytes
                       /\ pc' = "done"
                       /\ outcome' = "return"
    /\ UNCHANGED << op, args, target, data, get_response, readEnd,
                    queried, retState, udpOpen, dvars, bvars >>

SendWrite == SendWriteStep /\ UNCHANGED devvars

\* What the caller does once _send has returned resp: the state getter
\* decodes it; power_toggle then enters _send again with the power command.
AfterQuery(resp, debug) ==
    LET got == StateGetter(resp, debug) IN
    /\ response' = resp
    /\ IF got.exc # "return"
       THEN /\ Raise(got.exc)
            /\ UNCHANGED << retState, queried, data, get_response >>
       ELSE IF op = "state_get"
       THEN /\ pc' = "done"
            /\ outcome' = "return"
            /\ retState' = got.state
            /\ UNCHANGED << queried, data, get_response >>
       ELSE /\ queried' = got.state.is_on
            /\ data' = ToggleCommand(got.state.is_on)
            /\ get_response' = FALSE
            /\ pc' = "connect"
            /\ UNCHANGED << outcome, retState >>

\* s.recv(1024) returned one of the responses in R: lines 157-158, 162-163.
RecvData(R) ==
    /\ pc = "recv"
    /\ sock' = "closed"
    /\ tcpOpen' = tcpOpen - 1
    /\ readEnd' = "data"
    /\ \E resp \in R, debug \in BOOLEAN : AfterQuery(SomeBytes(resp), debug)
    /\ UNCHANGED << op, args, target, wire, udpOpen, dvars, bvars, devvars >>

SendRecvData == RecvData(Responses)

\* A handler that lets socket.timeout leave _send.
OnRecvTimeout_raises == [exc |-> "timeout", resp |-> NoneBytes]

\* _send, lines 159-161: socket.timeout is caught and response is None.
OnRecvTimeout == [exc |-> "none", resp |-> NoneBytes]

\* s.recv(1024) raised socket.timeout: lines 159-163.
SendRecvTimeout ==
    /\ pc = "recv"
    /\ readEnd' = "timeout"
    /\ IF OnRecvTimeout.exc # "none"
       THEN /\ Raise(OnRecvTimeout.exc)
            /\ UNCHANGED << sock, tcpOpen, response, retState, queried, data,
                            get_response >>
       ELSE /\ sock' = "closed"
            /\ tcpOpen' = tcpOpen - 1
            /\ \E debug \in BOOLEAN : AfterQuery(OnRecvTimeout.resp, debug)
    /\ UNCHANGED << op, args, target, wire, udpOpen, dvars, bvars, devvars >>

\* s.recv(1024) raised another OSError (connection reset): not caught.
SendRecvError ==
    /\ pc = "recv"
    /\ readEnd' = "error"
    /\ Raise("OSError")
    /\ UNCHANGED << op, args, target, data, get_response, sock, wire, response,
                    queried, retState, tcpOpen, udpOpen, dvars, bvars, devvars >>

(***************************************************************************)
(* MagicHomeControllerColorState.change_brightness.  colorsys works on     *)
(* floats; here every number is an exact fraction << n, d >> with d > 0 in *)
(* lowest terms.  The inputs below are ones for which the float results    *)
(* and the exact ones have the same integer part.                          *)
(***************************************************************************)
RECURSIVE GCD(_, _)
GCD(a, b) == IF b = 0 THEN a ELSE GCD(b, a % b)

Abs(n) == IF n < 0 THEN -n ELSE n

Norm(n, d) ==
    LET g == GCD(Abs(n), Abs(d))
        sgn == IF d < 0 THEN -1 ELSE 1
    IN  << (sgn * n) \div g, (sgn * d) \div g >>

Q(n) == << n, 1 >>
QAdd(a, b) == Norm(a[1] * b[2] + b[1] * a[2], a[2] * b[2])
QSub(a, b) == Norm(a[1] * b[2] - b[1] * a[2], a[2] * b[2])
QMul(a, b) == Norm(a[1] * b[1], a[2] * b[2])
\* a / b for b # 0.
QDiv(a, b) == Norm(a[1] * b[2], a[2] * b[1])
QLt(a, b) == a[1] * b[2] < b[1] * a[2]
QLe(a, b) == a[1] * b[2] <= b[1] * a[2]
\* x % 1.0: the fractional part, in [0, 1).
QMod1(a) == << a[1] % a[2], a[2] >>
\* int(x): truncation toward zero.
Trunc(a) == IF a[1] >= 0 THEN a[1] \div a[2] ELSE -((-a[1]) \div a[2])

Max3(a, b, c) == IF a >= b /\ a >= c THEN a ELSE IF b >= c THEN b ELSE c
Min3(a, b, c) == IF a <= b /\ a <= c THEN a ELSE IF b <= c THEN b ELSE c

\* colorsys.rgb_to_hls(r, g, b), called at line 53 with the channels as they
\* are (0..255, not scaled to 0..1).  The only divisor that can be zero is
\* 2.0 - maxc - minc.
rgb_to_hls(r, g, b) ==
    LET maxc == Max3(r, g, b)
        minc == Min3(r, g, b)
        sumc == maxc + minc
        rangec == maxc - minc
        l == QDiv(Q(sumc), Q(2))
        rc == QDiv(Q(maxc - r), Q(rangec))
        gc == QDiv(Q(maxc - g), Q(rangec))
        bc == QDiv(Q(maxc - b), Q(rangec))
        h == IF r = maxc THEN QSub(bc, gc)
             ELSE IF g = maxc THEN QSub(QAdd(Q(2), rc), bc)
             ELSE QSub(QAdd(Q(4), gc), rc)
    IN  IF minc = maxc
        THEN [exc |-> "none", h |-> Q(0), l |-> l, s |-> Q(0)]
        ELSE IF QLe(l, << 1, 2 >>)
        THEN [exc |-> "none", h |-> QMod1(QDiv(h, Q(6))), l |-> l,
              s |-> QDiv(Q(rangec), Q(sumc))]
        ELSE IF 2 - maxc - minc = 0
        THEN [exc |-> "ZeroDivisionError", h |-> Q(0), l |-> l, s |-> Q(0)]
        ELSE [exc |-> "none", h |-> QMod1(QDiv(h, Q(6))), l |-> l,
              s |-> QDiv(Q(rangec), Q(2 - maxc - minc))]

\* colorsys._v(m1, m2, hue).
hls_v(m1, m2, hue0) ==
    LET hue == QMod1(hue0) IN
    IF QLt(hue, << 1, 6 >>)
    THEN QAdd(m1, QMul(QMul(QSub(m2, m1), hue), Q(6)))
    ELSE IF QLt(hue, << 1, 2 >>) THEN m2
    ELSE IF QLt(hue, << 2, 3 >>)
    THEN QAdd(m1, QMul(QMul(QSub(m2, m1), QSub(<< 2, 3 >>, hue)), Q(6)))
    ELSE m1

\* colorsys.hls_to_rgb(h, l, s), called at line 62.
hls_to_rgb(h, l, s) ==
    LET m2 == IF QLe(l, << 1, 2 >>) THEN QMul(l, QAdd(Q(1), s))
              ELSE QSub(QAdd(l, s), QMul(l, s))
        m1 == QSub(QMul(Q(2), l), m2)
    IN  IF s[1] = 0 THEN << l, l, l >>
        ELSE << hls_v(m1, m2, QAdd(h, << 1, 3 >>)),
                hls_v(m1, m2, h),
                hls_v(m1, m2, QSub(h, << 1, 3 >>)) >>

\* The channel values and the deltas change_brightness is called with.
Shades == { 0, 2, 128, 255 }
Deltas ==
    { [delta |-> Q(d), percentage |-> FALSE] : d \in { -300, -8, 0, 8, 300 } }
        \cup { [delta |-> q, percentage |-> TRUE] : q \in { Q(0), << 1, 2 >>, Q(2) } }

\* Lines 51-66: the colour (r, g, b, w) after change_brightness(delta,
\* percentage), or the exception that leaves it.
ChangeBrightness(c, d) ==
    LET hls == rgb_to_hls(c[1], c[2], c[3])
        moved == IF d.percentage THEN QMul(hls.l, d.delta) ELSE QAdd(hls.l, d.delta)
        l == IF QLt(moved, Q(0)) THEN Q(0)
             ELSE IF QLt(Q(255), moved) THEN Q(255) ELSE moved
        rgb == hls_to_rgb(hls.h, l, hls.s)
    IN  IF d.delta[1] = 0 THEN [exc |-> "return", color |-> c]
        ELSE IF hls.exc # "none" THEN [exc |-> hls.exc, color |-> c]
        ELSE [exc |-> "return",
              color |-> << Trunc(rgb[1]), Trunc(rgb[2]), Trunc(rgb[3]), c[4] >>]

\* One call of change_brightness on a colour state; it touches no socket.
change_brightness ==
    /\ pc = "idle"
    /\ \E r \in Shades, g \in Shades, b \in Shades, d \in Deltas :
          LET res == ChangeBrightness(<< r, g, b, 0 >>, d) IN
          /\ args' = << r, g, b, 0 >>
          /\ delta' = d
          /\ retColor' = res.color
          /\ outcome' = res.exc
    /\ op' = "change_brightness"
    /\ pc' = "done"
    /\ UNCHANGED << tcpOpen, udpOpen, target, data, get_response, sock, wire,
                    readEnd, response, queried, retState, dvars, devvars >>

(***************************************************************************)
(* MagicHome.discover and MagicHome.connect.                               *)
(***************************************************************************)
BeginDiscovery(name, a) ==
    /\ pc = "idle"
    /\ tcpOpen + udpOpen < MaxOpen
    /\ op' = name
    /\ addr' = a
    /\ pc' = "setup"
    /\ outcome' = "none"
    /\ tried' = << >>
    /\ probes' = 0
    /\ rcvd' = << >>
    /\ found' = {}
    /\ yielded' = {}
    /\ retCtl' = NoCtl
    /\ peer' = << >>
    /\ UNCHANGED << tcpOpen, udpOpen, svars, bvars, devvars >>

\* The generator is created and asked for its first element.
discover == BeginDiscovery("discover", << >>)

connect == \E a \in Addrs : BeginDiscovery("connect", a)

Call(name, ok) == [call |-> name, ok |-> ok]

\* A fallback that asks for SO_REUSEADDR first and goes on although both
\* options were refused.
SetupCalls_addrFirst(reusePort, reuseAddr, bound, sentOk) ==
    LET opts == IF reuseAddr THEN << Call("SO_REUSEADDR", TRUE) >>
                ELSE << Call("SO_REUSEADDR", FALSE), Call("SO_REUSEPORT", reusePort) >>
    IN  IF ~bound THEN opts \o << Call("bind", FALSE) >>
        ELSE opts \o << Call("bind", TRUE), Call("sendto", sentOk) >>

\* Lines 281-294 (discover) and 317-330 (connect): the socket calls made, in
\* order, each with whether the platform accepted it.  SO_REUSEPORT is asked
\* for first and SO_REUSEADDR only when that raised; when both raised the
\* error leaves the call; after a bind or sendto error nothing more is called.
SetupCalls(reusePort, reuseAddr, bound, sentOk) ==
    LET opts == IF reusePort THEN << Call("SO_REUSEPORT", TRUE) >>
                ELSE << Call("SO_REUSEPORT", FALSE), Call("SO_REUSEADDR", reuseAddr) >>
    IN  IF ~opts[Len(opts)].ok THEN opts
        ELSE IF ~bound THEN opts \o << Call("bind", FALSE) >>
        ELSE opts \o << Call("bind", TRUE), Call("sendto", sentOk) >>

\* Lines 281-297 (discover) and 317-331 (connect): the socket, the reuse
\* option with its fallback, the timeout, bind and sendto.  Each call the
\* platform may refuse is an input; a refused call raises OSError.
Setup ==
    /\ pc = "setup"
    /\ udpOpen' = udpOpen + 1
    /\ \E reusePort \in BOOLEAN, reuseAddr \in BOOLEAN, bound \in BOOLEAN,
          sentOk \in BOOLEAN :
          LET calls == SetupCalls(reusePort, reuseAddr, bound, sentOk)
              last == calls[Len(calls)]
          IN  /\ tried' = calls
              /\ IF last.ok /\ last.call = "sendto"
                 THEN /\ probes' = probes + 1
                      /\ pc' = "recv_udp"
                      /\ UNCHANGED outcome
                 ELSE Raise("OSError") /\ UNCHANGED probes
    /\ UNCHANGED << op, tcpOpen, svars, addr, rcvd, found, yielded, retCtl, peer,
                    bvars, devvars >>

\* discover, lines 300-310: recvfrom returned a datagram.
DiscoverRecv ==
    /\ op = "discover"
    /\ pc = "recv_udp"
    /\ Len(rcvd) < MaxRecv
    /\ \E d \in Datagrams :
          LET made == MagicHomeController(split(d, Comma), Len(rcvd) + 1) IN
          /\ rcvd' = Append(rcvd, d)
          /\ found' = IF IsEcho(d) THEN found
                      ELSE IF made.exc # "none" THEN found
                      ELSE SetAdd(found, made.ctl)
    /\ UNCHANGED << op, pc, outcome, tcpOpen, udpOpen, svars, addr, tried,
                    probes, yielded, retCtl, peer, bvars, devvars >>

\* discover, lines 301-302: recvfrom raised socket.timeout, the loop ends.
DiscoverTimeout ==
    /\ op = "discover"
    /\ pc = "recv_udp"
    /\ pc' = "yield"
    /\ UNCHANGED << op, outcome, tcpOpen, udpOpen, svars, dvars, bvars, devvars >>

\* discover, lines 312-313: the next element of found, in the set's order.
DiscoverYield ==
    /\ pc = "yield"
    /\ \E c \in found \ yielded : yielded' = yielded \cup { c }
    /\ UNCHANGED << op, pc, outcome, tcpOpen, udpOpen, svars, addr, tried,
                    probes, rcvd, found, retCtl, peer, bvars, devvars >>

\* A loop that may stop before every element was yielded.
Exhausted_early(all, done) == TRUE

\* discover, line 312: "for m in found" ends when every element was yielded.
Exhausted(all, done) == all \subseteq done

\* discover: found is used up and the generator returns.
DiscoverExhausted ==
    /\ pc = "yield"
    /\ Exhausted(found, yielded)
    /\ pc' = "done"
    /\ outcome' = "return"
    /\ UNCHANGED << op, tcpOpen, udpOpen, svars, dvars, bvars, devvars >>

\* connect, lines 333-345: recvfrom returned a datagram, sent by any host
\* that can reach the discovery port.
ConnectRecv ==
    /\ op = "connect"
    /\ pc = "recv_udp"
    /\ \E d \in Datagrams, sender \in Addrs :
          LET made == MagicHomeController(split(d, Comma), 1) IN
          /\ rcvd' = Append(rcvd, d)
          /\ peer' = sender
          /\ pc' = "done"
          /\ IF made.exc # "none"
             THEN outcome' = "MagicHomeDeviceNotFound" /\ UNCHANGED retCtl
             ELSE outcome' = "return" /\ retCtl' = made.ctl
    /\ UNCHANGED << op, tcpOpen, udpOpen, svars, addr, tried, probes,
                    found, yielded, bvars, devvars >>

\* connect, lines 335-336: recvfrom raised socket.timeout.
ConnectTimeout ==
    /\ op = "connect"
    /\ pc = "recv_udp"
    /\ Raise("MagicHomeDeviceNotFound")
    /\ UNCHANGED << op, tcpOpen, udpOpen, svars, dvars, bvars, devvars >>

\* The call is over and the caller of the library goes on: the locals and
\* the result of the call are gone; sockets left open stay open.
Finish ==
    /\ pc = "done"
    /\ pc' = "idle"
    /\ op' = "idle"
    /\ args' = NoArgs
    /\ target' = "None"
    /\ data' = << >>
    /\ get_response' = FALSE
    /\ sock' = "none"
    /\ wire' = << >>
    /\ readEnd' = "none"
    /\ response' = NoneBytes
    /\ queried' = "None"
    /\ outcome' = "none"
    /\ retState' = NoState
    /\ addr' = << >>
    /\ tried' = << >>
    /\ probes' = 0
    /\ rcvd' = << >>
    /\ found' = {}
    /\ yielded' = {}
    /\ retCtl' = NoCtl
    /\ peer' = << >>
    /\ delta' = NoDelta
    /\ retColor' = NoArgs
    /\ UNCHANGED << tcpOpen, udpOpen, devvars >>

\* The sockets the code never closes (every UDP socket, and a TCP socket
\* whose _send raised) are closed by the socket object's finalizer when the
\* interpreter reclaims it: at some time after the last reference is gone,
\* or never.  The frame of a call that raised is kept by the traceback until
\* the caller is done with the exception.
Collect ==
    /\ \/ pc = "idle"
       \/ pc = "done" /\ outcome = "return"
    /\ \/ tcpOpen > 0 /\ pc = "idle" /\ tcpOpen' = tcpOpen - 1 /\ UNCHANGED udpOpen
       \/ udpOpen > 0 /\ udpOpen' = udpOpen - 1 /\ UNCHANGED tcpOpen
    /\ UNCHANGED << op, pc, outcome, svars, dvars, bvars, devvars >>

Next ==
    \/ turn_on
    \/ turn_off
    \/ color
    \/ state_get
    \/ state_set
    \/ power_toggle
    \/ SendConnect
    \/ SendWrite
    \/ SendRecvData
    \/ SendRecvTimeout
    \/ SendRecvError
    \/ discover
    \/ connect
    \/ Setup
    \/ DiscoverRecv
    \/ DiscoverTimeout
    \/ DiscoverYield
    \/ DiscoverExhausted
    \/ ConnectRecv
    \/ ConnectTimeout
    \/ Collect
    \/ change_brightness
    \/ Finish

Spec == Init /\ [][Next]_vars

(***************************************************************************)
(* One controller used for power_toggle alone, against a device that takes *)
(* every power command written to it, answers every query in time with at  *)
(* least 10 bytes and reports status 0x23 exactly when it is on.            *)
(***************************************************************************)
InitDevice ==
    /\ InitCalls
    /\ devOn \in BOOLEAN
    /\ devInit = devOn
    /\ toggles = 0

DeviceToggle ==
    /\ toggles < MaxToggles
    /\ power_toggle

\* The payload _send wrote has reached the device: 0x71 0x23 turns it on,
\* 0x71 0x24 turns it off, the query leaves it as it is.  A power_toggle
\* whose power command was written has returned.
DeviceSendWrite ==
    /\ SendWriteStep
    /\ devOn' = IF wire' = wire THEN devOn
                ELSE IF data = TURN_ON THEN TRUE
                ELSE IF data = TURN_OFF THEN FALSE
                ELSE devOn
    /\ toggles' = IF pc' = "done" /\ outcome' = "return" THEN toggles + 1 ELSE toggles
    /\ UNCHANGED devInit

\* The device's answer to the query: a full frame with its power state.
DeviceAnswer ==
    RecvData({ resp \in Responses : Len(resp) >= 10 /\ (resp[3] = 35 <=> devOn) })

NextDevice ==
    \/ DeviceToggle
    \/ SendConnect
    \/ DeviceSendWrite
    \/ DeviceAnswer
    \/ Finish

SpecDevice == InitDevice /\ [][NextDevice]_vars

(***************************************************************************)
(* The claims.                                                             *)
(***************************************************************************)
\* The byte a channel value is expected to travel as.
Clamped(i) == IF i < 0 THEN 0 ELSE IF i > 255 THEN 255 ELSE i

\* The 7 bytes of a set-color command for channel bytes r, g, b, w.
SetColorFrame(r, g, b, w) == << 49, r, g, b, w, 15, (49 + r + g + b + w + 15) % 256 >>

InByteRange(a) == \A i \in 1..4 : a[i] >= 0 /\ a[i] <= 255

NumFields(d) == Len(split(d, Comma))

\* C1: whenever no _send call is between its connect and its close (the call
\* has returned or raised), the socket that call opened is closed.
C1_SocketClosedOnEveryExit == pc \notin { "send", "recv" } => sock # "open"

\* C2: the identities discover yields hold at most one identity per address;
\* stated for the identities built from well-formed (3-field) responses: two
\* such responses carrying the same address give one identity.
C2_OneIdentityPerAddress ==
    \A c \in yielded : \A d \in yielded :
        (NumFields(rcvd[c.oid]) = 3 /\ NumFields(rcvd[d.oid]) = 3 /\ c.addr = d.addr)
            => c = d

\* C3: the state getter ends with one error (TypeError in this code) when
\* the read timed out and with a different one (IndexError) when fewer than
\* 10 bytes arrived; in both cases no state is returned.
C3_DistinctStateErrors ==
    (op = "state_get" /\ pc = "done") =>
        /\ readEnd = "timeout" => outcome = "TypeError" /\ retState = NoState
        /\ (readEnd = "data" /\ Len(response.bytes) < 10) =>
               outcome = "IndexError" /\ retState = NoState
        /\ outcome = "return" => readEnd = "data" /\ Len(response.bytes) >= 10

C3_Witness ==
    /\ op = "state_get"
    /\ pc = "done"
    /\ readEnd = "timeout"
    /\ outcome = "TypeError"

\* C4: every identity discover collected was built from a datagram of
\* exactly 3 comma-separated fields (datagrams of 1, 2, 4 or more fields are
\* skipped).
C4_MalformedSkipped ==
    op = "discover" => \A c \in found : NumFields(rcvd[c.oid]) = 3

\* C5: power_toggle writes the query first and then at most one power
\* command, exactly one when it returns: turn-off when the queried state is
\* on, turn-on when it is off or undetermined.
C5_ToggleSendsOnePowerCommand ==
    op = "power_toggle" =>
        /\ Len(wire) <= 2
        /\ Len(wire) >= 1 => wire[1] = QUERY
        /\ Len(wire) = 2 =>
               /\ readEnd = "data"
               /\ queried = "True" => wire[2] = << 113, 36, 149 >>
               /\ queried \in { "False", "None" } => wire[2] = << 113, 35, 148 >>
        /\ (pc = "done" /\ outcome = "return") => Len(wire) = 2

C5_Witness ==
    /\ op = "power_toggle"
    /\ pc = "done"
    /\ outcome = "return"
    /\ queried = "None"
    /\ wire = << QUERY, TURN_ON >>

\* C6 as stated: the state setter, once it has returned, has written one
\* turn-off and nothing else when the target's flag is off, and one
\* set-color command with the target's channel values for every other
\* target (flag on or undetermined).
C6_SetStateAsStated ==
    (op = "state_set" /\ pc = "done" /\ outcome = "return") =>
        wire = << IF target = "False" THEN << 113, 36, 149 >>
                  ELSE SetColorFrame(Clamped(args[1]), Clamped(args[2]),
                                     Clamped(args[3]), Clamped(args[4])) >>

\* C6 amended: the state setter never writes more than one command; once it
\* has returned it has written one turn-off and nothing else when the
\* target's flag is off or undetermined, and one set-color command with the
\* target's channel values and nothing else when the flag is on.
C6_SetStateOffOrUndetermined ==
    op = "state_set" =>
        /\ Len(wire) <= 1
        /\ (pc = "done" /\ outcome = "return") =>
               wire = << IF target \in { "False", "None" } THEN << 113, 36, 149 >>
                         ELSE SetColorFrame(Clamped(args[1]), Clamped(args[2]),
                                            Clamped(args[3]), Clamped(args[4])) >>

C6_Witness ==
    /\ op = "state_set"
    /\ pc = "done"
    /\ outcome = "return"
    /\ target = "None"
    /\ wire = << TURN_OFF >>

\* C7: for r, g, b, w in 0..255 the set-color payload, as handed to _send and
\* as written, is the 7 bytes 0x31, r, g, b, w, 0x0f and their sum modulo 256.
C7_SetColorPayload ==
    (op = "color" /\ InByteRange(args)) =>
        /\ data = << 49, args[1], args[2], args[3], args[4], 15,
                     (49 + args[1] + args[2] + args[3] + args[4] + 15) % 256 >>
        /\ Len(data) = 7
        /\ \A i \in 1..Len(wire) : wire[i] = data

C7_Witness ==
    /\ op = "color"
    /\ args = << 255, 255, 255, 255 >>
    /\ wire = << << 49, 255, 255, 255, 255, 15, 60 >> >>

\* C8: each channel byte of the set-color payload is 0 for an input below 0,
\* 255 for an input above 255 and the input otherwise, and the checksum is
\* taken over these bytes.
C8_ChannelsClamped ==
    op = "color" =>
        /\ \A i \in 1..4 :
              data[i + 1] = (IF args[i] < 0 THEN 0
                             ELSE IF args[i] > 255 THEN 255 ELSE args[i])
        /\ data[7] = (data[1] + data[2] + data[3] + data[4] + data[5] + data[6]) % 256
        /\ data[1] = 49 /\ data[6] = 15

C8_Witness ==
    /\ op = "color"
    /\ pc = "done"
    /\ outcome = "return"
    /\ args[1] < 0
    /\ args[2] > 255
    /\ wire = << data >>

\* C9: a response of at least 10 bytes is decoded; the state is on exactly
\* when byte 2 is 0x23, undetermined (never off) otherwise, and its colour is
\* bytes 6, 7, 8, 9.
C9_DecodeQueryResponse ==
    (op = "state_get" /\ pc = "done" /\ readEnd = "data"
        /\ Len(response.bytes) >= 10) =>
        /\ outcome = "return"
        /\ retState.is_on = (IF response.bytes[3] = 35 THEN "True" ELSE "None")
        /\ retState.color = << response.bytes[7], response.bytes[8],
                               response.bytes[9], response.bytes[10] >>

C9_Witness ==
    /\ op = "state_get"
    /\ pc = "done"
    /\ outcome = "return"
    /\ response.bytes[3] = 36
    /\ retState = [is_on |-> "None", color |-> << 10, 200, 10, 200 >>]

\* C10: connect, unless its socket setup failed, raises
\* MagicHomeDeviceNotFound when no datagram arrived or the datagram has not
\* exactly 3 fields, and returns a controller otherwise.
C10_ConnectRejectsMalformed ==
    (op = "connect" /\ pc = "done" /\ outcome # "OSError") =>
        IF rcvd = << >> \/ NumFields(rcvd[1]) # 3
        THEN outcome = "MagicHomeDeviceNotFound"
        ELSE outcome = "return"

\* C11: discover never collects or yields an identity built from a datagram
\* equal to the probe message, wherever it stands among the datagrams
\* received, and the echo does not end the enumeration: every other datagram
\* the constructor accepts, before or after an echo, is collected.
C11_EchoIgnored ==
    op = "discover" =>
        /\ \A c \in found \cup yielded : rcvd[c.oid] # broadcast_message
        /\ \A i \in 1..Len(rcvd) :
               (rcvd[i] # broadcast_message /\ NumFields(rcvd[i]) \in 1..3)
                   => \E c \in found : c.oid = i

C11_Witness ==
    /\ op = "discover"
    /\ pc = "done"
    /\ outcome = "return"
    /\ Len(rcvd) = 2
    /\ rcvd[1] = broadcast_message
    /\ \E c \in yielded : c.oid = 2 /\ c.id.some /\ c.model.some

\* C12: when s.recv times out, _send closes the socket and returns None and
\* no exception leaves _send (the call then ends with the TypeError the state
\* getter raises on None, never with the timeout); a call whose last _send
\* asked for no response got None from it.
C12_ReadTimeoutNotFatal ==
    /\ readEnd = "timeout" =>
           /\ ~response.some
           /\ sock = "closed"
           /\ outcome \notin { "timeout", "OSError" }
    /\ (pc = "done" /\ outcome = "return" /\ op \in { "turn_on", "turn_off",
            "color", "state_set", "power_toggle" }) =>
           /\ ~get_response
           /\ ~response.some
           /\ sock = "closed"

C12_Witness ==
    /\ op = "power_toggle"
    /\ pc = "done"
    /\ readEnd = "timeout"
    /\ ~response.some
    /\ sock = "closed"
    /\ outcome = "TypeError"

\* C13: after change_brightness has returned, with any delta, additive or
\* multiplicative, each of red, green and blue is in 0..255, and with
\* delta = 0 the colour is the one it was.
C13_BrightnessKeepsChannelsInRange ==
    (op = "change_brightness" /\ pc = "done" /\ outcome = "return") =>
        /\ \A i \in 1..3 : retColor[i] >= 0 /\ retColor[i] <= 255
        /\ delta.delta[1] = 0 => retColor = args

\* C14: at most one TCP connection is open at a time, in any sequence of
\* session operations: the connection of the earlier _send is closed before
\* the next one is opened.
C14_AtMostOneConnectionOpen == tcpOpen <= 1

\* C15: discover sends the probe exactly once, before it receives; nothing
\* is yielded while it receives; what it yields was collected; it returns
\* only when all that was collected has been yielded; and once the receive
\* loop has ended on a timeout nothing more is received, collected or sent,
\* and after the return nothing more is yielded.
C15_DiscoverOnceThenExhausted ==
    /\ [](op = "discover" =>
            /\ probes <= 1
            /\ pc \in { "recv_udp", "yield" } => probes = 1
            /\ pc = "recv_udp" => yielded = {}
            /\ yielded \subseteq found
            /\ (pc = "done" /\ outcome = "return") => yielded = found /\ probes = 1)
    /\ [][(op = "discover" /\ pc \in { "yield", "done" }) =>
            \/ op' = "idle"
            \/ /\ rcvd' = rcvd
               /\ found' = found
               /\ probes' = probes
               /\ pc' \in { "yield", "done" }
               /\ pc = "done" => yielded' = yielded /\ pc' = "done"]_vars

C15_Witness ==
    /\ op = "discover"
    /\ pc = "done"
    /\ outcome = "return"
    /\ probes = 1
    /\ Len(rcvd) = 2
    /\ Cardinality(found) = 2
    /\ yielded = found

\* C16: when discover or connect has finished, by returning or by raising,
\* the UDP socket it opened is closed, so no socket is open on the discovery
\* port.
C16_UdpSocketReleased ==
    (op \in { "discover", "connect" } /\ pc = "done") => udpOpen = 0

\* C17: the identity connect returns is never built from a datagram equal
\* to the probe message.
C17_ConnectFiltersEcho ==
    (op = "connect" /\ pc = "done" /\ outcome = "return") =>
        rcvd[1] # broadcast_message

\* C18: the setup of discover and of connect asks for SO_REUSEPORT first and
\* for SO_REUSEADDR only when SO_REUSEPORT was refused; it goes on to bind and
\* send only when one of the two was accepted; when both were refused the
\* call ends with the error and no probe was sent.
C18_ReuseFallbackOrdered ==
    (op \in { "discover", "connect" } /\ tried # << >>) =>
        /\ tried[1].call = "SO_REUSEPORT"
        /\ \A i \in 2..Len(tried) :
               /\ tried[i].call # "SO_REUSEPORT"
               /\ tried[i].call = "SO_REUSEADDR" => i = 2 /\ ~tried[1].ok
               /\ tried[i].call \in { "bind", "sendto" } =>
                      \E j \in 1..(i - 1) :
                          tried[j].call \in { "SO_REUSEPORT", "SO_REUSEADDR" } /\ tried[j].ok
        /\ ~tried[1].ok => Len(tried) >= 2 /\ tried[2].call = "SO_REUSEADDR"
        /\ (~tried[1].ok /\ ~tried[2].ok) =>
               /\ Len(tried) = 2
               /\ pc = "done"
               /\ outcome = "OSError"
               /\ probes = 0
        /\ (~tried[1].ok /\ tried[2].ok /\ Len(tried) = 4 /\ tried[4].ok) => probes = 1

C18_Witness ==
    /\ op = "connect"
    /\ pc = "recv_udp"
    /\ probes = 1
    /\ tried = << Call("SO_REUSEPORT", FALSE), Call("SO_REUSEADDR", TRUE),
                  Call("bind", TRUE), Call("sendto", TRUE) >>

\* C19: against a device that answers every query in time with at least 10
\* bytes and reports status 0x23 exactly when it is on, with no other command
\* in between, the device's power state after one power_toggle is the
\* opposite of the one it started with, and after two it is that one again.
C19_ToggleInvertsTwiceRestores ==
    /\ toggles % 2 = 1 => devOn = ~devInit
    /\ toggles % 2 = 0 => devOn = devInit
    /\ (op = "power_toggle" /\ pc = "done" /\ outcome = "return") =>
           devOn = (queried # "True")

C19_Witness ==
    /\ op = "power_toggle"
    /\ pc = "done"
    /\ outcome = "return"
    /\ toggles = 2
    /\ devInit
    /\ devOn

\* C20: the identity connect returns has the address connect was called
\* with and is built from a datagram sent by that host; stated for the
\* identities built from well-formed (3-field) responses.
C20_ConnectReturnsProbedDevice ==
    (op = "connect" /\ pc = "done" /\ outcome = "return" /\ NumFields(rcvd[1]) = 3) =>
        /\ retCtl.addr = addr
        /\ peer = addr

====
